---- MODULE Spec2Model ----
(***************************************************************************)
(* Model of the two n8n nodes of the repository:                           *)
(*   ApsDataManagement.execute   (pipeline "DM")                           *)
(*   ApsModelDerivative.execute  (pipeline "MD")                           *)
(* Each execute() is a loop over the input items: resolve the parameters   *)
(* and build the request, await the authenticated transport call, turn     *)
(* the response into output items, and on an exception either push an      *)
(* error item (continueOnFail) or throw a NodeOperationError.              *)
(***************************************************************************)
EXTENDS Integers, Sequences, FiniteSets, TLC

(***************************************************************************)
(* Bounds                                                                  *)
(***************************************************************************)
\* largest number of input items of one run
MaxItems == 2

(***************************************************************************)
(* JavaScript values.  Every value is a record tagged with its kind; text  *)
(* is a sequence of chunks, an object is a function from keys to values.   *)
(***************************************************************************)
Undefined == [kind |-> "undefined"]

Null == [kind |-> "null"]

Bool(b) == [kind |-> "boolean", bool |-> b]

Num(n) == [kind |-> "number", num |-> n]

Str(s) == [kind |-> "string", str |-> s]

Arr(s) == [kind |-> "array", elems |-> s]

Obj(f) == [kind |-> "object", fields |-> f]

Buf(b) == [kind |-> "buffer", bytes |-> b]

EmptyFields == [k \in {} |-> Undefined]

\* v.k, and v?.k: undefined when v has no such property
Get(v, k) ==
    IF v.kind = "object" /\ k \in DOMAIN v.fields THEN v.fields[k] ELSE Undefined

\* a ?? b
Coalesce(a, b) == IF a.kind \in {"undefined", "null"} THEN b ELSE a

\* the truthiness of a value
Truthy(v) ==
    CASE v.kind \in {"undefined", "null"} -> FALSE
      [] v.kind = "boolean" -> v.bool
      [] v.kind = "number" -> v.num # 0
      [] v.kind = "string" -> v.str # <<>>
      [] OTHER -> TRUE

\* typeof v === 'object'
TypeofObject(v) == v.kind \in {"null", "object", "array", "buffer"}

\* Array.isArray(v)
IsArray(v) == v.kind = "array"

\* the own enumerable properties an object spread {...v} copies
SpreadFields(v) ==
    CASE v.kind = "object" -> v.fields
      [] v.kind = "array" -> [k \in {ToString(n - 1) : n \in 1..Len(v.elems)} |->
                                 LET n == CHOOSE m \in 1..Len(v.elems) : ToString(m - 1) = k
                                 IN  v.elems[n]]
      [] v.kind = "buffer" -> [k \in {ToString(n - 1) : n \in 1..Len(v.bytes)} |->
                                 LET n == CHOOSE m \in 1..Len(v.bytes) : ToString(m - 1) = k
                                 IN  Num(v.bytes[n])]
      [] OTHER -> EmptyFields

(***************************************************************************)
(* simplifyEntity: { id, type, href, ...attributes }.  In an object        *)
(* literal a later property replaces an earlier one of the same name, so   *)
(* the spread attributes win over id, type and href.                       *)
(***************************************************************************)
EntityHref(entity) ==
    Coalesce(Get(Get(Get(entity, "links"), "self"), "href"),
             Coalesce(Get(Get(entity, "links"), "href"), Undefined))

EntityAttributes(entity) ==
    IF Truthy(Get(entity, "attributes")) /\ TypeofObject(Get(entity, "attributes"))
    THEN SpreadFields(Get(entity, "attributes"))
    ELSE EmptyFields

EntityIdentity(entity) ==
    ("id" :> Get(entity, "id")) @@ ("type" :> Get(entity, "type"))
        @@ ("href" :> EntityHref(entity))

simplifyEntity(entity) ==
    Obj(EntityAttributes(entity) @@ EntityIdentity(entity))

(***************************************************************************)
(* Text conversions used by the nodes.                                     *)
(***************************************************************************)
Base64Alphabet ==
    << "A","B","C","D","E","F","G","H","I","J","K","L","M","N","O","P",
       "Q","R","S","T","U","V","W","X","Y","Z","a","b","c","d","e","f",
       "g","h","i","j","k","l","m","n","o","p","q","r","s","t","u","v",
       "w","x","y","z","0","1","2","3","4","5","6","7","8","9","+","/" >>

Base64Char(n) == Base64Alphabet[n + 1]

\* Buffer.toString('base64'): three bytes become four characters, the last
\* group is padded with '='
RECURSIVE Base64Encode(_)
Base64Encode(bytes) ==
    IF Len(bytes) = 0 THEN <<>>
    ELSE IF Len(bytes) = 1 THEN
        << Base64Char(bytes[1] \div 4), Base64Char((bytes[1] % 4) * 16), "=", "=" >>
    ELSE IF Len(bytes) = 2 THEN
        << Base64Char(bytes[1] \div 4),
           Base64Char((bytes[1] % 4) * 16 + bytes[2] \div 16),
           Base64Char((bytes[2] % 16) * 4), "=" >>
    ELSE
        << Base64Char(bytes[1] \div 4),
           Base64Char((bytes[1] % 4) * 16 + bytes[2] \div 16),
           Base64Char((bytes[2] % 16) * 4 + bytes[3] \div 64),
           Base64Char(bytes[3] % 64) >>
        \o Base64Encode(SubSeq(bytes, 4, Len(bytes)))

Base64Index(c) == (CHOOSE n \in 1..64 : Base64Alphabet[n] = c) - 1

\* Buffer.from(text, 'base64'): four characters become three bytes, a padded
\* group gives one or two
RECURSIVE Base64Decode(_)
Base64Decode(chars) ==
    IF Len(chars) < 2 \/ chars[1] = "=" \/ chars[2] = "=" THEN <<>>
    ELSE LET a == Base64Index(chars[1])
             b == Base64Index(chars[2])
             first == a * 4 + b \div 16
         IN  IF Len(chars) < 3 \/ chars[3] = "=" THEN << first >>
             ELSE LET c == Base64Index(chars[3])
                      second == (b % 16) * 16 + c \div 4
                  IN  IF Len(chars) < 4 \/ chars[4] = "=" THEN << first, second >>
                      ELSE << first, second, (c % 4) * 64 + Base64Index(chars[4]) >>
                               \o Base64Decode(SubSeq(chars, 5, Len(chars)))

\* the characters encodeURIComponent leaves alone (those of the alphabet the
\* parameter values are drawn from)
UriUnreserved == {"a", "b", "k", "1", "-", "_", ".", "~", "!", "*", "'", "(", ")"}

\* the UTF-8 percent escape of a character encodeURIComponent escapes
PercentEscape(c) ==
    CASE c = "/" -> << "%", "2", "F" >>
      [] c = "?" -> << "%", "3", "F" >>
      [] c = "#" -> << "%", "2", "3" >>
      [] c = ":" -> << "%", "3", "A" >>
      [] c = " " -> << "%", "2", "0" >>
      [] c = "%" -> << "%", "2", "5" >>
      [] c = ";" -> << "%", "3", "B" >>
      [] c = "@" -> << "%", "4", "0" >>
      [] c = "&" -> << "%", "2", "6" >>
      [] c = "=" -> << "%", "3", "D" >>
      [] c = "+" -> << "%", "2", "B" >>
      [] c = "$" -> << "%", "2", "4" >>
      [] c = "," -> << "%", "2", "C" >>

RECURSIVE encodeURIComponent(_)
encodeURIComponent(chars) ==
    IF chars = <<>> THEN <<>>
    ELSE (IF Head(chars) \in UriUnreserved THEN << Head(chars) >>
          ELSE PercentEscape(Head(chars)))
         \o encodeURIComponent(Tail(chars))

(***************************************************************************)
(* The values the transport is taken to return: JSON:API lists and single  *)
(* entities, domain payloads without a data field, text and bytes.         *)
(***************************************************************************)
EntityA ==
    Obj(("id" :> Str(<<"a">>)) @@ ("type" :> Str(<<"items">>))
        @@ ("attributes" :> Obj("name" :> Str(<<"x">>)))
        @@ ("links" :> Obj("self" :> Obj("href" :> Str(<<"u">>)))))

\* an entity whose attributes carry a key named id
EntityB ==
    Obj(("id" :> Str(<<"b">>)) @@ ("type" :> Str(<<"folders">>))
        @@ ("attributes" :> Obj(("id" :> Str(<<"z">>)) @@ ("name" :> Str(<<"y">>))))
        @@ ("links" :> Obj("href" :> Str(<<"v">>))))

\* a record without attributes and without links
EntityFlat == Obj(("id" :> Str(<<"c">>)) @@ ("name" :> Str(<<"flat">>)))

BodyEmptyList == Obj("data" :> Arr(<<>>))

BodyOneList == Obj("data" :> Arr(<< EntityA >>))

\* a list body with a further top-level field beside data
BodyList ==
    Obj(("data" :> Arr(<< EntityB, EntityFlat >>))
        @@ ("jsonapi" :> Obj("version" :> Str(<<"1.0">>))))

BodySingle == Obj("data" :> EntityB)

BodyNoData == Obj(("status" :> Str(<<"success">>)) @@ ("region" :> Str(<<"US">>)))

BodyDataNull == Obj("data" :> Null)

BodyDataText == Obj("data" :> Str(<<"pending">>))

TextOneList ==
    << "{\"data\":[{\"id\":\"a\",\"type\":\"items\",\"attributes\":{\"name\":\"x\"},\"links\":{\"self\":{\"href\":\"u\"}}}]}" >>

TextNull == << "null" >>

TextNotJson == << "<html>Bad Gateway</html>" >>

BytesPng == << 137, 80 >>

\* JSON.parse on the texts above; ok = FALSE is the SyntaxError
JSONParse(text) ==
    CASE text = TextOneList -> [ok |-> TRUE, value |-> BodyOneList]
      [] text = TextNull -> [ok |-> TRUE, value |-> Null]
      [] OTHER -> [ok |-> FALSE, value |-> Undefined]

RawResults ==
    { BodyEmptyList, BodyList, BodySingle, BodyNoData, BodyDataNull, BodyDataText,
      Str(TextOneList), Str(TextNull), Str(TextNotJson), Buf(BytesPng) }

\* the messages of the errors the transport is taken to raise
TransportMessages == { << "Request failed with status code 404" >> }

(***************************************************************************)
(* Parameters.  A ParameterSet maps each parameter the operation declares  *)
(* to the value the item supplies, or to Absent.                           *)
(***************************************************************************)
Absent == [kind |-> "absent"]

DMOperations ==
    { "getHubs", "getProjects", "getTopFolders", "getItems", "getItemVersions",
      "listBuckets", "createBucket", "getBucketDetails", "deleteBucket",
      "uploadObject", "downloadObject", "getObjectDetails", "deleteObject",
      "copyObject" }

MDOperations ==
    { "createJob", "getManifest", "deleteManifest", "getMetadata",
      "getMetadataTree", "getThumbnail" }

Operations(p) == IF p = "DM" THEN DMOperations ELSE MDOperations

\* a path parameter value with unreserved and with reserved characters
PathValues == << Str(<< "k", "1", "/", "a", "?" >>) >>

\* the values an item may supply for a parameter
ParamChoices(name) ==
    CASE name \in { "hubId", "projectId", "folderId", "itemId", "bucketKey",
                    "objectName", "newObjectName", "urn", "guid" } -> PathValues
      [] name = "newBucketKey" -> << Str(<< "k", "1" >>) >>
      [] name = "policyKey" -> << Str(<< "transient" >>) >>
      [] name = "region" -> << Str(<< "EMEA" >>) >>
      [] name = "limit" -> << Num(50) >>
      [] name = "fileContent" -> << Str(Base64Encode(BytesPng)) >>
      [] name = "contentType" -> << Str(<< "image/png" >>) >>
      [] name = "outputFormat" -> << Str(<< "svf2" >>) >>
      [] name = "views" -> << Arr(<< Str(<< "2d" >>) >>) >>
      [] name = "acceptEncoding" -> << Str(<< "gzip" >>) >>
      [] name \in { "width", "height" } -> << Num(100) >>
      [] name \in { "binaryData", "forceRegenerate", "advancedOutputSettings",
                    "forceGetTree" } -> << Bool(TRUE) >>
      [] name \in { "simplify", "splitItems" } -> << Bool(TRUE), Bool(FALSE) >>

\* the parameters execute() looks up for an operation, in the order of the
\* lookups, each with required = it is looked up without a fallback value
DMLookups(op) ==
    CASE op = "getHubs" -> << >>
      [] op = "getProjects" -> << [name |-> "hubId", required |-> TRUE] >>
      [] op = "getTopFolders" -> << [name |-> "projectId", required |-> TRUE] >>
      [] op = "getItems" -> << [name |-> "projectId", required |-> TRUE],
                               [name |-> "folderId", required |-> TRUE] >>
      [] op = "getItemVersions" -> << [name |-> "projectId", required |-> TRUE],
                                      [name |-> "itemId", required |-> TRUE] >>
      [] op = "listBuckets" -> << [name |-> "region", required |-> FALSE],
                                  [name |-> "limit", required |-> FALSE] >>
      [] op = "createBucket" -> << [name |-> "newBucketKey", required |-> TRUE],
                                   [name |-> "policyKey", required |-> TRUE],
                                   [name |-> "region", required |-> FALSE] >>
      [] op \in { "getBucketDetails", "deleteBucket" } ->
             << [name |-> "bucketKey", required |-> TRUE] >>
      [] op = "uploadObject" -> << [name |-> "bucketKey", required |-> TRUE],
                                   [name |-> "objectName", required |-> TRUE],
                                   [name |-> "fileContent", required |-> TRUE],
                                   [name |-> "contentType", required |-> FALSE],
                                   [name |-> "binaryData", required |-> FALSE] >>
      [] op \in { "downloadObject", "getObjectDetails", "deleteObject" } ->
             << [name |-> "bucketKey", required |-> TRUE],
                [name |-> "objectName", required |-> TRUE] >>
      [] op = "copyObject" -> << [name |-> "bucketKey", required |-> TRUE],
                                 [name |-> "objectName", required |-> TRUE],
                                 [name |-> "newObjectName", required |-> TRUE] >>

MDLookups(op) ==
    << [name |-> "urn", required |-> TRUE] >> \o
    CASE op = "createJob" -> << [name |-> "outputFormat", required |-> TRUE],
                                [name |-> "forceRegenerate", required |-> FALSE],
                                [name |-> "advancedOutputSettings", required |-> FALSE],
                                [name |-> "views", required |-> FALSE] >>
      [] op = "getManifest" -> << [name |-> "acceptEncoding", required |-> FALSE] >>
      [] op \in { "deleteManifest", "getMetadata" } -> << >>
      [] op = "getMetadataTree" -> << [name |-> "guid", required |-> TRUE],
                                      [name |-> "forceGetTree", required |-> FALSE] >>
      [] op = "getThumbnail" -> << [name |-> "width", required |-> FALSE],
                                   [name |-> "height", required |-> FALSE] >>

\* the lookups before the transport call
RequestLookups(p, op) == IF p = "DM" THEN DMLookups(op) ELSE MDLookups(op)

\* mutant of ResponseLookups: simplify is looked up without a fallback value
ResponseLookupsRequired(p) ==
    IF p = "DM" THEN << [name |-> "simplify", required |-> TRUE],
                        [name |-> "splitItems", required |-> FALSE] >>
    ELSE << >>

\* the lookups after the transport call
ResponseLookups(p) ==
    IF p = "DM" THEN << [name |-> "simplify", required |-> FALSE],
                        [name |-> "splitItems", required |-> FALSE] >>
    ELSE << >>

LookupNames(lookups) == { lookups[k].name : k \in 1..Len(lookups) }

\* every assignment of a supplied value or Absent to the given parameters
RECURSIVE ParameterSets(_)
ParameterSets(names) ==
    IF names = {} THEN { EmptyFields }
    ELSE LET n == CHOOSE x \in names : TRUE
         IN  { (n :> v) @@ P :
                 v \in { Absent } \cup { ParamChoices(n)[k] : k \in 1..Len(ParamChoices(n)) },
                 P \in ParameterSets(names \ { n }) }

\* this.getNodeParameter(name, i, fallback): the supplied value, else the
\* fallback, else the lookup fails
getNodeParameter(P, name, fallback) == IF P[name] = Absent THEN fallback ELSE P[name]

\* the first lookup of the sequence that fails: a required parameter that
\* the item does not supply (0 when every lookup succeeds)
FirstFailing(P, lookups) ==
    IF \E k \in 1..Len(lookups) : lookups[k].required /\ P[lookups[k].name] = Absent
    THEN CHOOSE k \in 1..Len(lookups) :
            /\ lookups[k].required /\ P[lookups[k].name] = Absent
            /\ \A j \in 1..(k - 1) : ~(lookups[j].required /\ P[lookups[j].name] = Absent)
    ELSE 0

\* the error a failing lookup raises; its message does not name the parameter
ConfigurationError(name) ==
    [kind |-> "ConfigurationError", message |-> << "Could not get parameter" >>,
     parameter |-> name]

\* the error a failing transport call raises
TransportError(message) ==
    [kind |-> "TransportError", message |-> message, parameter |-> ""]

NoError == [kind |-> "none", message |-> << >>, parameter |-> ""]

(***************************************************************************)
(* Operation resolver: the request options built for an operation.  A url  *)
(* is a sequence of chunks: the pieces of the template literal and, for    *)
(* each interpolated parameter, the characters encodeURIComponent returns. *)
(***************************************************************************)
BASE_URL == "https://developer.api.autodesk.com"

AcceptJsonApi == Str(<< "application/vnd.api+json, application/json;q=0.9" >>)

\* mutant of EncodedParam: the parameter is interpolated as it is
EncodedParamRaw(P, name) == P[name].str

EncodedParam(P, name) == encodeURIComponent(P[name].str)

\* the url the switch statement of ApsDataManagement.execute assigns
DMSwitchUrl(op, P) ==
    CASE op = "getHubs" -> << BASE_URL, "/project/v1/hubs" >>
      [] op = "getProjects" ->
             << BASE_URL, "/project/v1/hubs/" >> \o EncodedParam(P, "hubId")
                 \o << "/projects" >>
      [] op = "getTopFolders" ->
             << BASE_URL, "/project/v1/projects/" >> \o EncodedParam(P, "projectId")
                 \o << "/topFolders" >>
      [] op = "getItems" ->
             << BASE_URL, "/data/v1/projects/" >> \o EncodedParam(P, "projectId")
                 \o << "/folders/" >> \o EncodedParam(P, "folderId") \o << "/contents" >>
      [] op = "getItemVersions" ->
             << BASE_URL, "/data/v1/projects/" >> \o EncodedParam(P, "projectId")
                 \o << "/items/" >> \o EncodedParam(P, "itemId") \o << "/versions" >>
      [] OTHER -> << >>

DMBucketUrl(P) == << BASE_URL, "/oss/v2/buckets/" >> \o EncodedParam(P, "bucketKey")

DMObjectUrl(P) == DMBucketUrl(P) \o << "/objects/" >> \o EncodedParam(P, "objectName")

DMBaseRequest(op, P) ==
    [ method |-> "GET", url |-> DMSwitchUrl(op, P), json |-> TRUE,
      headers |-> Obj("Accept" :> AcceptJsonApi),
      qs |-> Undefined, body |-> Undefined, encoding |-> Undefined ]

DMRequest(op, P) ==
    LET base == DMBaseRequest(op, P)
    IN  CASE op = "listBuckets" ->
                 [ base EXCEPT
                     !.url = << BASE_URL, "/oss/v2/buckets" >>,
                     !.headers = Obj(("Accept" :> AcceptJsonApi)
                                     @@ ("region" :> getNodeParameter(P, "region", Str(<< "US" >>)))),
                     !.qs = Obj("limit" :> getNodeParameter(P, "limit", Num(10))) ]
          [] op = "createBucket" ->
                 [ method |-> "POST", url |-> << BASE_URL, "/oss/v2/buckets" >>,
                   body |-> Obj(("bucketKey" :> P["newBucketKey"])
                                @@ ("policyKey" :> P["policyKey"])),
                   json |-> TRUE,
                   headers |-> Obj(("Content-Type" :> Str(<< "application/json" >>))
                                   @@ ("region" :> getNodeParameter(P, "region", Str(<< "US" >>)))),
                   qs |-> Undefined, encoding |-> Undefined ]
          [] op = "getBucketDetails" ->
                 [ base EXCEPT !.url = DMBucketUrl(P) \o << "/details" >> ]
          [] op = "deleteBucket" ->
                 [ base EXCEPT !.method = "DELETE", !.url = DMBucketUrl(P) ]
          [] op = "uploadObject" ->
                 [ method |-> "PUT", url |-> DMObjectUrl(P),
                   body |-> IF getNodeParameter(P, "binaryData", Bool(FALSE)).bool
                            THEN Buf(Base64Decode(P["fileContent"].str))
                            ELSE P["fileContent"],
                   headers |-> Obj("Content-Type" :>
                                   getNodeParameter(P, "contentType",
                                                    Str(<< "application/octet-stream" >>))),
                   json |-> FALSE, qs |-> Undefined, encoding |-> Undefined ]
          [] op = "downloadObject" ->
                 [ base EXCEPT !.url = DMObjectUrl(P), !.encoding = Null, !.json = FALSE ]
          [] op = "getObjectDetails" ->
                 [ base EXCEPT !.url = DMObjectUrl(P) \o << "/details" >> ]
          [] op = "deleteObject" ->
                 [ base EXCEPT !.method = "DELETE", !.url = DMObjectUrl(P) ]
          [] op = "copyObject" ->
                 [ base EXCEPT !.method = "PUT",
                               !.url = DMObjectUrl(P) \o << "/copyTo/" >>
                                           \o EncodedParam(P, "newObjectName") ]
          [] OTHER -> base

MDDesignDataUrl(P) ==
    << BASE_URL, "/modelderivative/v2/designdata/" >> \o EncodedParam(P, "urn")

MDJobBody(P) ==
    LET format == IF getNodeParameter(P, "advancedOutputSettings", Bool(FALSE)).bool
                  THEN ("type" :> P["outputFormat"])
                       @@ ("views" :> getNodeParameter(P, "views",
                                          Arr(<< Str(<< "2d" >>), Str(<< "3d" >>) >>)))
                  ELSE ("type" :> P["outputFormat"])
    IN  Obj(("input" :> Obj("urn" :> P["urn"]))
            @@ ("output" :> Obj("formats" :> Arr(<< Obj(format) >>))))

MDRequest(op, P) ==
    CASE op = "createJob" ->
             [ method |-> "POST",
               url |-> << BASE_URL, "/modelderivative/v2/designdata/job" >>,
               body |-> MDJobBody(P), json |-> TRUE,
               headers |-> Obj("Content-Type" :> Str(<< "application/json" >>)),
               qs |-> IF getNodeParameter(P, "forceRegenerate", Bool(FALSE)).bool
                      THEN Obj("force" :> Bool(TRUE)) ELSE Undefined,
               encoding |-> Undefined ]
      [] op = "getManifest" ->
             [ method |-> "GET", url |-> MDDesignDataUrl(P) \o << "/manifest" >>,
               json |-> TRUE,
               headers |-> IF Truthy(getNodeParameter(P, "acceptEncoding", Str(<< >>)))
                           THEN Obj("Accept-Encoding" :>
                                    getNodeParameter(P, "acceptEncoding", Str(<< >>)))
                           ELSE Undefined,
               qs |-> Undefined, body |-> Undefined, encoding |-> Undefined ]
      [] op = "deleteManifest" ->
             [ method |-> "DELETE", url |-> MDDesignDataUrl(P) \o << "/manifest" >>,
               json |-> TRUE, headers |-> Undefined,
               qs |-> Undefined, body |-> Undefined, encoding |-> Undefined ]
      [] op = "getMetadata" ->
             [ method |-> "GET", url |-> MDDesignDataUrl(P) \o << "/metadata" >>,
               json |-> TRUE, headers |-> Undefined,
               qs |-> Undefined, body |-> Undefined, encoding |-> Undefined ]
      [] op = "getMetadataTree" ->
             [ method |-> "GET",
               url |-> MDDesignDataUrl(P) \o << "/metadata/" >> \o EncodedParam(P, "guid"),
               json |-> TRUE, headers |-> Undefined,
               qs |-> IF getNodeParameter(P, "forceGetTree", Bool(FALSE)).bool
                      THEN Obj("forceget" :> Bool(TRUE)) ELSE Undefined,
               body |-> Undefined, encoding |-> Undefined ]
      [] op = "getThumbnail" ->
             [ method |-> "GET", url |-> MDDesignDataUrl(P) \o << "/thumbnail" >>,
               qs |-> Obj(("width" :> getNodeParameter(P, "width", Num(400)))
                          @@ ("height" :> getNodeParameter(P, "height", Num(400)))),
               encoding |-> Null, json |-> FALSE,
               headers |-> Obj("Accept" :> Str(<< "image/png, application/json" >>)),
               body |-> Undefined ]

BuildRequest(p, op, P) == IF p = "DM" THEN DMRequest(op, P) ELSE MDRequest(op, P)

NoRequest ==
    [ method |-> "", url |-> << >>, json |-> FALSE, headers |-> Undefined,
      qs |-> Undefined, body |-> Undefined, encoding |-> Undefined ]

(***************************************************************************)
(* Response normalizer.                                                    *)
(***************************************************************************)
\* mutant of OutputItem: every item is paired with the first input item
OutputItemFirstIndex(json, i) ==
    [ json |-> json, pairedItem |-> [form |-> "object", item |-> 0], binary |-> Undefined ]

\* returnData element { json, pairedItem: { item: i } }
OutputItem(json, i) ==
    [ json |-> json, pairedItem |-> [form |-> "object", item |-> i], binary |-> Undefined ]

\* returnData element { json: { error: message }, pairedItem: i }
ErrorItem(err, i) ==
    [ json |-> Obj("error" :> Str(err.message)),
      pairedItem |-> [form |-> "number", item |-> i], binary |-> Undefined ]

\* mutant of ParseBody: a text that is not JSON is dropped
ParseBodyStrict(resp) ==
    IF resp.kind = "string"
    THEN (IF JSONParse(resp.str).ok THEN JSONParse(resp.str).value ELSE Null)
    ELSE resp

\* if (typeof body === 'string') try { body = JSON.parse(body) } catch {}
ParseBody(resp) ==
    IF resp.kind = "string" /\ JSONParse(resp.str).ok THEN JSONParse(resp.str).value
    ELSE resp

\* helpers.prepareBinaryData(buffer, fileName, mimeType)
prepareBinaryData(buffer, fileName, mimeType) ==
    Obj(("data" :> buffer) @@ ("fileName" :> Str(<< fileName >>))
        @@ ("mimeType" :> Str(<< mimeType >>)))

\* mutant of ListElement: the elements are simplified whatever simplify is
ListElementSimplified(element, simplifyOn) == simplifyEntity(element)

\* const json = simplify ? simplifyEntity(element) : element
ListElement(element, simplifyOn) ==
    IF simplifyOn THEN simplifyEntity(element) ELSE element

\* mutant of ListWrapper: the simplified elements are pushed as a bare array
ListWrapperBareArray(parsed, simplifyOn) ==
    IF simplifyOn
    THEN Arr([ k \in 1..Len(Get(parsed, "data").elems) |->
                simplifyEntity(Get(parsed, "data").elems[k]) ])
    ELSE parsed

\* the json of the one item pushed for a list body when splitItems is off:
\* { data: simplified elements } when simplify is set, else the body itself
ListWrapper(parsed, simplifyOn) ==
    IF simplifyOn
    THEN Obj("data" :> Arr([ k \in 1..Len(Get(parsed, "data").elems) |->
                              simplifyEntity(Get(parsed, "data").elems[k]) ]))
    ELSE parsed

\* mutant of EntityJson: the entity is simplified whatever simplify is
EntityJsonSimplified(target, simplifyOn) == simplifyEntity(target)

\* const json = simplify ? simplifyEntity(target) : target
EntityJson(target, simplifyOn) ==
    IF simplifyOn THEN simplifyEntity(target) ELSE target

\* mutant of DMNormalize: the fan-out of a list breaks off after the first
\* element and an error item follows
DMNormalizeBreaksOff(parsed, simplifyOn, splitOn, item) ==
    IF IsArray(Get(parsed, "data")) /\ splitOn /\ Len(Get(parsed, "data").elems) >= 2
    THEN << OutputItem(ListElement(Get(parsed, "data").elems[1], simplifyOn), item),
            ErrorItem(TransportError(<< "Request failed with status code 404" >>), item) >>
    ELSE << OutputItem(parsed, item) >>

\* the output items ApsDataManagement.execute pushes for a parsed body
DMNormalize(parsed, simplifyOn, splitOn, item) ==
    LET data == Get(parsed, "data")
    IN  IF IsArray(data) THEN
            IF splitOn THEN
                [ k \in 1..Len(data.elems) |->
                    OutputItem(ListElement(data.elems[k], simplifyOn), item) ]
            ELSE << OutputItem(ListWrapper(parsed, simplifyOn), item) >>
        ELSE IF Truthy(parsed) /\ TypeofObject(parsed) /\ Truthy(data) /\ TypeofObject(data)
        THEN << OutputItem(EntityJson(data, simplifyOn), item) >>
        ELSE << OutputItem(parsed, item) >>

\* the output items ApsModelDerivative.execute pushes for a response
MDNormalize(op, resp, item) ==
    IF op = "getThumbnail" /\ Truthy(resp) /\ resp.kind = "buffer" THEN
        << [ json |-> Obj(("thumbnail" :> Str(Base64Encode(resp.bytes)))
                          @@ ("contentType" :> Str(<< "image/png" >>))),
             pairedItem |-> [form |-> "object", item |-> item],
             binary |-> Obj("data" :> prepareBinaryData(resp, "thumbnail.png", "image/png")) ] >>
    ELSE << OutputItem(ParseBody(resp), item) >>

(***************************************************************************)
(* The run of one execute() call.                                          *)
(***************************************************************************)
VARIABLES
    pipeline,        \* "DM": ApsDataManagement, "MD": ApsModelDerivative
    continueOnFail,  \* this.continueOnFail()
    itemCount,       \* items.length
    i,               \* the loop index
    pc,              \* "loop", "awaiting" (the transport call), "returned", "thrown"
    operation,       \* the current item's operation
    requestOptions,  \* the request handed to the transport
    response,        \* what the transport returned for the current item
    body,            \* the response after the JSON.parse attempt
    simplify,        \* the current item's simplify parameter (DM)
    splitItems,      \* the current item's splitItems parameter (DM)
    returnData,      \* the output sequence
    thrown,          \* the NodeOperationError that ended the run
    log              \* history: what was done for which item, in order

vars == << pipeline, continueOnFail, itemCount, i, pc, operation, requestOptions,
           response, body, simplify, splitItems, returnData, thrown, log >>

NoThrow == [raised |-> FALSE, itemIndex |-> -1, error |-> NoError]

Event(ev, item, detail) == [ev |-> ev, item |-> item, detail |-> detail]

Init ==
    /\ pipeline \in { "DM", "MD" }
    /\ continueOnFail \in BOOLEAN
    /\ itemCount \in 0..MaxItems
    /\ i = 0
    /\ pc = "loop"
    /\ operation = ""
    /\ requestOptions = NoRequest
    /\ response = Undefined
    /\ body = Undefined
    /\ simplify = TRUE
    /\ splitItems = TRUE
    /\ returnData = << >>
    /\ thrown = NoThrow
    /\ log = << >>

\* mutant of Catch: the error is thrown whatever continueOnFail is
CatchRethrows(err, events) ==
    /\ log' = log \o events \o << [ev |-> err.kind, item |-> i, detail |-> err.message] >>
    /\ operation' = ""
    /\ requestOptions' = NoRequest
    /\ returnData' = returnData
    /\ i' = i
    /\ pc' = "thrown"
    /\ thrown' = [raised |-> TRUE, itemIndex |-> i, error |-> err]

\* mutant of Catch: the error is turned into an item whatever continueOnFail is
CatchSwallows(err, events) ==
    /\ log' = log \o events \o << [ev |-> err.kind, item |-> i, detail |-> err.message] >>
    /\ operation' = ""
    /\ requestOptions' = NoRequest
    /\ returnData' = Append(returnData,
                            [ json |-> Obj("error" :> Str(err.message)),
                              pairedItem |-> [form |-> "number", item |-> i],
                              binary |-> Undefined ])
    /\ i' = i + 1
    /\ pc' = "loop"
    /\ thrown' = thrown

\* mutant of Catch: the error item is put in front of the output sequence
CatchPrepends(err, events) ==
    /\ log' = log \o events \o << [ev |-> err.kind, item |-> i, detail |-> err.message] >>
    /\ operation' = ""
    /\ requestOptions' = NoRequest
    /\ IF continueOnFail
       THEN /\ returnData' = << [ json |-> Obj("error" :> Str(err.message)),
                                  pairedItem |-> [form |-> "number", item |-> i],
                                  binary |-> Undefined ] >> \o returnData
            /\ i' = i + 1
            /\ pc' = "loop"
            /\ thrown' = thrown
       ELSE /\ returnData' = returnData
            /\ i' = i
            /\ pc' = "thrown"
            /\ thrown' = [raised |-> TRUE, itemIndex |-> i, error |-> err]

\* catch (error): push the error item and continue with the next item, or
\* throw NodeOperationError(node, error, { itemIndex: i }); the iteration's
\* block-scoped operation and requestOptions end with it
Catch(err, events) ==
    /\ log' = log \o events \o << Event(err.kind, i, err.message) >>
    /\ operation' = ""
    /\ requestOptions' = NoRequest
    /\ IF continueOnFail
       THEN /\ returnData' = Append(returnData, ErrorItem(err, i))
            /\ i' = i + 1
            /\ pc' = "loop"
            /\ thrown' = thrown
       ELSE /\ returnData' = returnData
            /\ i' = i
            /\ pc' = "thrown"
            /\ thrown' = [raised |-> TRUE, itemIndex |-> i, error |-> err]

\* an iteration whose parameter lookups succeed: the request is built and
\* handed to requestWithAuthentication
ResolveRequest ==
    /\ pc = "loop"
    /\ i < itemCount
    /\ \E op \in Operations(pipeline) :
       \E P \in ParameterSets(LookupNames(RequestLookups(pipeline, op))) :
          /\ FirstFailing(P, RequestLookups(pipeline, op)) = 0
          /\ operation' = op
          /\ requestOptions' = BuildRequest(pipeline, op, P)
    /\ pc' = "awaiting"
    /\ response' = Undefined
    /\ body' = Undefined
    /\ log' = log \o << Event("resolve", i, << >>), Event("invoke", i, << >>) >>
    /\ UNCHANGED << pipeline, continueOnFail, itemCount, i, simplify, splitItems,
                    returnData, thrown >>

\* an iteration in which a lookup before the transport call fails: the
\* operation itself or one of its required parameters is not supplied
ResolveFails ==
    /\ pc = "loop"
    /\ i < itemCount
    /\ response' = Undefined
    /\ body' = Undefined
    /\ \/ Catch(ConfigurationError("operation"), << Event("resolve", i, << >>) >>)
       \/ \E op \in Operations(pipeline) :
          \E P \in ParameterSets(LookupNames(RequestLookups(pipeline, op))) :
             LET k == FirstFailing(P, RequestLookups(pipeline, op))
             IN  /\ k # 0
                 /\ Catch(ConfigurationError(RequestLookups(pipeline, op)[k].name),
                          << Event("resolve", i, << >>) >>)
    /\ UNCHANGED << pipeline, continueOnFail, itemCount, simplify, splitItems >>

\* the transport call settles with a result: the body is parsed, the
\* remaining parameters are looked up, and the output items are pushed
TransportResolves ==
    /\ pc = "awaiting"
    /\ \E r \in RawResults :
       \E P \in ParameterSets(LookupNames(ResponseLookups(pipeline))) :
          LET k == FirstFailing(P, ResponseLookups(pipeline))
          IN  /\ response' = r
              /\ body' = IF pipeline = "MD" /\ operation = "getThumbnail"
                            /\ Truthy(r) /\ r.kind = "buffer"
                         THEN Undefined ELSE ParseBody(r)
              /\ IF k # 0
                 THEN /\ Catch(ConfigurationError(ResponseLookups(pipeline)[k].name), << >>)
                      /\ UNCHANGED << simplify, splitItems >>
                 ELSE /\ IF pipeline = "DM"
                         THEN /\ simplify' = getNodeParameter(P, "simplify", Bool(TRUE)).bool
                              /\ splitItems' = getNodeParameter(P, "splitItems", Bool(TRUE)).bool
                              /\ returnData' = returnData
                                     \o DMNormalize(body', simplify', splitItems', i)
                         ELSE /\ UNCHANGED << simplify, splitItems >>
                              /\ returnData' = returnData \o MDNormalize(operation, r, i)
                      /\ i' = i + 1
                      /\ pc' = "loop"
                      /\ operation' = ""
                      /\ requestOptions' = NoRequest
                      /\ log' = Append(log, Event("normalize", i, << >>))
                      /\ UNCHANGED thrown
    /\ UNCHANGED << pipeline, continueOnFail, itemCount >>

\* the transport call settles with an error
TransportRejects ==
    /\ pc = "awaiting"
    /\ \E m \in TransportMessages : Catch(TransportError(m), << >>)
    /\ UNCHANGED << pipeline, continueOnFail, itemCount, response, body, simplify,
                    splitItems >>

\* the loop is over: return [returnData]
Return ==
    /\ pc = "loop"
    /\ i = itemCount
    /\ pc' = "returned"
    /\ UNCHANGED << pipeline, continueOnFail, itemCount, i, operation, requestOptions,
                    response, body, simplify, splitItems, returnData, thrown, log >>

(***************************************************************************)
(* The operation resolver alone, over a wider set of path parameters: the  *)
(* lookups and the request construction of one iteration.                  *)
(***************************************************************************)
PathParameters ==
    { "hubId", "projectId", "folderId", "itemId", "bucketKey", "objectName",
      "newObjectName", "urn", "guid" }

\* path parameter values: plain, empty, dots, and every kind of character
\* encodeURIComponent escapes or leaves alone
WidePathValues ==
    << Str(<< "k", "1" >>),
       Str(<< >>),
       Str(<< ".", "." >>),
       Str(<< "k", "1", "/", "a", "?" >>),
       Str(<< "#", ":", "@", "&", "=", " " >>),
       Str(<< ";", "+", "$", ",", "%", "!", "*" >>) >>

WideParamChoices(name) ==
    IF name \in PathParameters THEN WidePathValues ELSE ParamChoices(name)

RECURSIVE WideParameterSets(_)
WideParameterSets(names) ==
    IF names = {} THEN { EmptyFields }
    ELSE LET n == CHOOSE x \in names : TRUE
         IN  { (n :> v) @@ P :
                 v \in IF n \in PathParameters
                       THEN { WideParamChoices(n)[k] : k \in 1..Len(WideParamChoices(n)) }
                       ELSE { Absent },
                 P \in WideParameterSets(names \ { n }) }

\* the required parameters of an operation
RequiredNames(p, op) ==
    { RequestLookups(p, op)[k].name :
        k \in { j \in 1..Len(RequestLookups(p, op)) : RequestLookups(p, op)[j].required } }

\* an iteration up to the call of requestWithAuthentication, every path
\* parameter supplied and the optional parameters left to their fallbacks
ResolvePaths ==
    /\ pc = "loop"
    /\ i < itemCount
    /\ \E op \in Operations(pipeline) :
       \E P \in WideParameterSets(LookupNames(RequestLookups(pipeline, op))) :
       \E Q \in ParameterSets(RequiredNames(pipeline, op) \ PathParameters) :
          /\ FirstFailing(Q @@ P, RequestLookups(pipeline, op)) = 0
          /\ operation' = op
          /\ requestOptions' = BuildRequest(pipeline, op, Q @@ P)
    /\ pc' = "awaiting"
    /\ response' = Undefined
    /\ body' = Undefined
    /\ log' = log \o << Event("resolve", i, << >>), Event("invoke", i, << >>) >>
    /\ UNCHANGED << pipeline, continueOnFail, itemCount, i, simplify, splitItems,
                    returnData, thrown >>

NextResolver == ResolvePaths

SpecResolver == Init /\ [][NextResolver]_vars

Next ==
    \/ ResolveRequest
    \/ ResolveFails
    \/ TransportResolves
    \/ TransportRejects
    \/ Return

Spec == Init /\ [][Next]_vars

(***************************************************************************)
(* Properties                                                              *)
(***************************************************************************)
\* the output items the step appends to returnData
Appended == SubSeq(returnData', Len(returnData) + 1, Len(returnData'))

\* the step only appends to returnData
AppendOnly ==
    /\ Len(returnData') >= Len(returnData)
    /\ SubSeq(returnData', 1, Len(returnData)) = returnData

IsErrorEvent(e) == e.ev \in { "ConfigurationError", "TransportError" }

\* the step raises an error while processing item i
RaisesError == log' # log /\ IsErrorEvent(log'[Len(log')])

\* the step is a transport call that settled and was normalized
NormalizeStep == log' # log /\ log'[Len(log')].ev = "normalize"

\* the state right after an item's response was normalized
JustNormalized == log # << >> /\ log[Len(log)].ev = "normalize"

\* the output items paired with input item j
OutputsOf(j) == SelectSeq(returnData, LAMBDA o : o.pairedItem.item = j)

\* C1: in both pipelines every output item a step appends (normal, fanned
\* out of a list body, binary or error-shaped) is paired with the index of
\* the input item being processed, and the items already in the output
\* sequence keep their pairing.
C1_PairedItemIsOrigin ==
    [][ /\ AppendOnly
        /\ \A k \in 1..Len(Appended) : Appended[k].pairedItem.item = i ]_vars

\* C1 witness: a fan-out of item 0 followed by an error item of item 1
C1_Witness ==
    /\ Len(returnData) >= 3
    /\ returnData[1].pairedItem.item = 0
    /\ returnData[2].pairedItem.item = 0
    /\ returnData[Len(returnData)].pairedItem.item = 1
    /\ "error" \in DOMAIN returnData[Len(returnData)].json.fields

\* C2: with continueOnFail, an error raised while processing item j never
\* aborts the run; it leaves exactly one output item for j, which is
\* { json: { error: message }, pairedItem: j }; processing goes on with the
\* next item, so that a run that returns has processed every input item;
\* and the outputs follow the order of the inputs.
C2_ContinueOnFail ==
    continueOnFail =>
        /\ pc # "thrown"
        /\ \A k \in 1..Len(log) :
              IsErrorEvent(log[k]) =>
                  /\ Len(OutputsOf(log[k].item)) = 1
                  /\ OutputsOf(log[k].item)[1].json = Obj("error" :> Str(log[k].detail))
                  /\ OutputsOf(log[k].item)[1].binary = Undefined
                  /\ log[k].item < i
        /\ \A j \in 0..(i - 1) : \E k \in 1..Len(log) : log[k] = Event("resolve", j, << >>)
        /\ pc = "returned" => i = itemCount
        /\ \A a, b \in 1..Len(returnData) :
              a < b => returnData[a].pairedItem.item <= returnData[b].pairedItem.item

\* C2 witness: item 0 failed, item 1 was processed normally, the run returned
C2_Witness ==
    /\ continueOnFail
    /\ pc = "returned"
    /\ itemCount = 2
    /\ \E k \in 1..Len(log) : IsErrorEvent(log[k]) /\ log[k].item = 0
    /\ \E k \in 1..Len(log) : log[k] = Event("normalize", 1, << >>)
    /\ Len(returnData) >= 2
    /\ returnData[1].json = Obj("error" :> Str(<< "Could not get parameter" >>))

\* C3: without continueOnFail, an error raised while processing item i is
\* thrown at once as a NodeOperationError with itemIndex i, the output items
\* pushed before stay as they are, and nothing is done after the throw: no
\* lookup, no transport call and no output item for a later item.
C3_AbortOnError ==
    [][ /\ pc # "thrown"
        /\ (~continueOnFail /\ RaisesError) =>
              /\ pc' = "thrown"
              /\ thrown'.raised
              /\ thrown'.itemIndex = i
              /\ thrown'.itemIndex = log'[Len(log')].item
              /\ thrown'.error.message = log'[Len(log')].detail
              /\ returnData' = returnData ]_vars

\* C3 witness: the run was aborted at item 0 of two items; item 1 has no
\* event and no output
C3_Witness ==
    /\ ~continueOnFail
    /\ pc = "thrown"
    /\ thrown.itemIndex = 0
    /\ itemCount = 2
    /\ \A k \in 1..Len(log) : log[k].item = 0
    /\ returnData = << >>

\* C4: a configuration error of item j is raised before any transport call
\* for j: the log never has a ConfigurationError of an item after an invoke
\* of the same item.
C4_ConfigErrorBeforeTransport ==
    \A a, b \in 1..Len(log) :
        (a < b /\ log[a].ev = "invoke") =>
            ~(log[b].ev = "ConfigurationError" /\ log[b].item = log[a].item)

\* C4 witness: item 0 failed on a parameter without a transport call, and
\* the transport was called for item 1
C4_Witness ==
    /\ \E k \in 1..Len(log) : log[k].ev = "ConfigurationError" /\ log[k].item = 0
    /\ ~ \E k \in 1..Len(log) : log[k].ev = "invoke" /\ log[k].item = 0
    /\ \E k \in 1..Len(log) : log[k].ev = "invoke" /\ log[k].item = 1

\* the flattened record o carries the entity's own id, type and link href
IdentityKept(entity, o) ==
    /\ Get(o, "id") = Get(entity, "id")
    /\ Get(o, "type") = Get(entity, "type")
    /\ Get(o, "href") = EntityHref(entity)

\* C5: wherever the Data Management pipeline flattens an entity (a single
\* entity, or the elements of a split list), the flattened record's id, type
\* and href are the entity's own id, type and link href, also when the
\* attributes carry a key of that name.
C5_IdentityPrecedence ==
    [][ (NormalizeStep /\ pipeline = "DM" /\ simplify') =>
           /\ Get(body', "data").kind = "object" =>
                 IdentityKept(Get(body', "data"), Appended[1].json)
           /\ (IsArray(Get(body', "data")) /\ splitItems') =>
                 \A k \in 1..Len(Appended) :
                     IdentityKept(Get(body', "data").elems[k], Appended[k].json) ]_vars

\* C6: in the Data Management pipeline, a body whose data is an array of n
\* elements, with splitItems on, appends exactly n output items in the
\* array's order, the k-th being simplifyEntity of element k when simplify
\* is on and element k itself otherwise, all paired with the item; an empty
\* array appends nothing.
C6_ListSplit ==
    [][ (NormalizeStep /\ pipeline = "DM" /\ IsArray(Get(body', "data")) /\ splitItems') =>
           /\ Len(Appended) = Len(Get(body', "data").elems)
           /\ \A k \in 1..Len(Appended) :
                 /\ Appended[k].json =
                        IF simplify' THEN simplifyEntity(Get(body', "data").elems[k])
                        ELSE Get(body', "data").elems[k]
                 /\ Appended[k].pairedItem.item = i
                 /\ Appended[k].binary = Undefined ]_vars

\* C6 witness: a two-element list was split without simplify
C6_Witness ==
    /\ JustNormalized
    /\ pipeline = "DM"
    /\ splitItems
    /\ ~simplify
    /\ IsArray(Get(body, "data"))
    /\ Len(Get(body, "data").elems) = 2
    /\ Len(returnData) >= 2
    /\ returnData[Len(returnData)].json = Get(body, "data").elems[2]

\* the wrapper { data: [...] } with nothing but the key data
DataWrapper(elements) == Obj("data" :> Arr(elements))

\* C7 as stated: with splitItems off a list body appends exactly one output
\* item whose json is { data: [...] } and nothing else, the elements
\* flattened when simplify is on and the original ones otherwise.
C7_ListWrapperOnlyData ==
    [][ (NormalizeStep /\ pipeline = "DM" /\ IsArray(Get(body', "data")) /\ ~splitItems') =>
           /\ Len(Appended) = 1
           /\ Appended[1].json =
                  DataWrapper([ k \in 1..Len(Get(body', "data").elems) |->
                                  IF simplify' THEN simplifyEntity(Get(body', "data").elems[k])
                                  ELSE Get(body', "data").elems[k] ]) ]_vars

\* C7 amended: with splitItems off a list body appends exactly one output
\* item, paired with the item; with simplify on its json is { data: [...] }
\* with the flattened elements and no other key, with simplify off its json
\* is the body itself, its data array together with every further top-level
\* field of the body.
C7_ListWrapper ==
    [][ (NormalizeStep /\ pipeline = "DM" /\ IsArray(Get(body', "data")) /\ ~splitItems') =>
           /\ Len(Appended) = 1
           /\ Appended[1].pairedItem.item = i
           /\ simplify' =>
                 Appended[1].json =
                     DataWrapper([ k \in 1..Len(Get(body', "data").elems) |->
                                     simplifyEntity(Get(body', "data").elems[k]) ])
           /\ ~simplify' => Appended[1].json = body' ]_vars

\* C7 witness: a list body with a further top-level field was wrapped with
\* simplify on, which dropped the field
C7_Witness ==
    /\ JustNormalized
    /\ pipeline = "DM"
    /\ ~splitItems
    /\ simplify
    /\ IsArray(Get(body, "data"))
    /\ "jsonapi" \in DOMAIN body.fields
    /\ DOMAIN returnData[Len(returnData)].json.fields = { "data" }
    /\ Len(returnData[Len(returnData)].json.fields["data"].elems) = 2

\* C8: in the Data Management pipeline a body whose data is a single
\* structured object appends exactly one output item, simplifyEntity(data)
\* when simplify is on and data itself otherwise, whatever splitItems is; a
\* body whose data is an array is never handled that way.
C8_SingleEntity ==
    [][ (NormalizeStep /\ pipeline = "DM") =>
           /\ Get(body', "data").kind = "object" =>
                 /\ Len(Appended) = 1
                 /\ Appended[1].json =
                        IF simplify' THEN simplifyEntity(Get(body', "data"))
                        ELSE Get(body', "data")
                 /\ Appended[1].pairedItem.item = i
           /\ IsArray(Get(body', "data")) =>
                 \A k \in 1..Len(Appended) :
                     Appended[k].json \notin { simplifyEntity(Get(body', "data")),
                                               Get(body', "data") } ]_vars

\* C8 witness: a single entity was emitted unflattened with splitItems off
C8_Witness ==
    /\ JustNormalized
    /\ pipeline = "DM"
    /\ ~splitItems
    /\ ~simplify
    /\ Get(body, "data").kind = "object"
    /\ returnData[Len(returnData)].json = Get(body, "data")

\* the body is of neither JSON:API shape
PassThroughShape(b) == Get(b, "data").kind \notin { "array", "object" }

\* C9: a body without a data field, or whose data is neither an array nor a
\* structured object, appends exactly one output item whose json is the
\* body itself, whatever simplify and splitItems are; a text response that
\* JSON.parse rejects is such a body and is kept as it is.
C9_PassThrough ==
    [][ (NormalizeStep /\ pipeline = "DM") =>
           /\ (response'.kind = "string" /\ ~JSONParse(response'.str).ok) =>
                 body' = response'
           /\ PassThroughShape(body') =>
                 /\ Len(Appended) = 1
                 /\ Appended[1].json = body'
                 /\ Appended[1].pairedItem.item = i ]_vars

\* C9 witness: a text that is not JSON was passed through with simplify on
C9_Witness ==
    /\ JustNormalized
    /\ pipeline = "DM"
    /\ simplify
    /\ response = Str(TextNotJson)
    /\ body = response
    /\ returnData[Len(returnData)].json = Str(TextNotJson)

\* the operations that ask the transport for bytes (encoding: null)
BinaryOperations(p) == IF p = "DM" THEN { "downloadObject" } ELSE { "getThumbnail" }

\* C10: for an operation whose output is binary, a response of bytes
\* appends exactly one output item whose json has a field with the base64
\* text of the bytes and a contentType, and whose binary attachment holds
\* the bytes.
C10_BinaryPath ==
    [][ (NormalizeStep /\ operation \in BinaryOperations(pipeline)
            /\ response'.kind = "buffer") =>
           /\ Len(Appended) = 1
           /\ Appended[1].json.kind = "object"
           /\ \E f \in DOMAIN Appended[1].json.fields :
                 Appended[1].json.fields[f] = Str(Base64Encode(response'.bytes))
           /\ "contentType" \in DOMAIN Appended[1].json.fields
           /\ Get(Get(Appended[1].binary, "data"), "data") = response' ]_vars

\* the record has neither an attributes nor a links container
IsFlatRecord(e) ==
    /\ e.kind = "object"
    /\ "attributes" \notin DOMAIN e.fields
    /\ "links" \notin DOMAIN e.fields

\* o is what the claim expects of flattening entity e: a flat record keeps
\* every field, and flattening o again changes nothing
FlattenedOnce(e, o) ==
    /\ IsFlatRecord(e) => \A f \in DOMAIN e.fields : Get(o, f) = e.fields[f]
    /\ simplifyEntity(o) = o

\* C11: wherever the Data Management pipeline flattens an entity, a record
\* without attributes and links comes out with all of its fields, and
\* flattening the flattened record again gives the same record.
C11_FlattenIdempotent ==
    [][ (NormalizeStep /\ pipeline = "DM" /\ simplify') =>
           /\ Get(body', "data").kind = "object" =>
                 FlattenedOnce(Get(body', "data"), Appended[1].json)
           /\ (IsArray(Get(body', "data")) /\ splitItems') =>
                 \A k \in 1..Len(Appended) :
                     FlattenedOnce(Get(body', "data").elems[k], Appended[k].json) ]_vars

\* the pieces of the template literal an operation's url is built from
UrlTemplate(p, op) ==
    CASE op = "getHubs" -> << BASE_URL, "/project/v1/hubs" >>
      [] op = "getProjects" -> << BASE_URL, "/project/v1/hubs/", "/projects" >>
      [] op = "getTopFolders" -> << BASE_URL, "/project/v1/projects/", "/topFolders" >>
      [] op = "getItems" -> << BASE_URL, "/data/v1/projects/", "/folders/", "/contents" >>
      [] op = "getItemVersions" -> << BASE_URL, "/data/v1/projects/", "/items/", "/versions" >>
      [] op \in { "listBuckets", "createBucket" } -> << BASE_URL, "/oss/v2/buckets" >>
      [] op = "getBucketDetails" -> << BASE_URL, "/oss/v2/buckets/", "/details" >>
      [] op = "deleteBucket" -> << BASE_URL, "/oss/v2/buckets/" >>
      [] op \in { "uploadObject", "downloadObject", "deleteObject" } ->
             << BASE_URL, "/oss/v2/buckets/", "/objects/" >>
      [] op = "getObjectDetails" -> << BASE_URL, "/oss/v2/buckets/", "/objects/", "/details" >>
      [] op = "copyObject" -> << BASE_URL, "/oss/v2/buckets/", "/objects/", "/copyTo/" >>
      [] op = "createJob" -> << BASE_URL, "/modelderivative/v2/designdata/job" >>
      [] op \in { "getManifest", "deleteManifest" } ->
             << BASE_URL, "/modelderivative/v2/designdata/", "/manifest" >>
      [] op = "getMetadata" -> << BASE_URL, "/modelderivative/v2/designdata/", "/metadata" >>
      [] op = "getMetadataTree" ->
             << BASE_URL, "/modelderivative/v2/designdata/", "/metadata/" >>
      [] op = "getThumbnail" -> << BASE_URL, "/modelderivative/v2/designdata/", "/thumbnail" >>

TemplateChunks ==
    UNION { { UrlTemplate(p, op)[k] : k \in 1..Len(UrlTemplate(p, op)) } :
              p \in { "DM", "MD" }, op \in DMOperations \cup MDOperations }

\* the characters a parameter must not bring into a url unescaped: the
\* reserved set of the URI syntax encodeURIComponent implements, and the
\* fragment, escape and space characters
ReservedChars == { ";", "/", "?", ":", "@", "&", "=", "+", "$", ",", "#", "%", " " }

\* a character of a percent escape: '%' followed by two hexadecimal digits
IsEscapeAt(url, k) ==
    /\ url[k] = "%"
    /\ k + 2 <= Len(url)
    /\ url[k + 1] \in { "2", "3", "4" }
    /\ url[k + 2] \in { "0", "3", "4", "5", "6", "A", "B", "C", "D", "F" }

Outstanding(l) ==
    { k \in 1..Len(l) :
        /\ l[k].ev = "invoke"
        /\ ~ \E m \in (k + 1)..Len(l) :
               /\ l[m].item = l[k].item
               /\ l[m].ev \in { "normalize", "TransportError", "ConfigurationError" } }

\* the items of a sequence of events or of output items never go back
ItemsInOrder(l) == \A a, b \in 1..Len(l) : a < b => l[a].item <= l[b].item

\* what C13 says of a state: at most one transport call is outstanding, and
\* one is exactly while the loop awaits it; the items were handled in their
\* order; the paired indices along the output sequence never decrease
SequentialState ==
    /\ Cardinality(Outstanding(log)) <= 1
    /\ (pc = "awaiting") = (Outstanding(log) # {})
    /\ ItemsInOrder(log)
    /\ ItemsInOrder([ k \in 1..Len(returnData) |-> returnData[k].pairedItem ])

\* C13: in every state at most one transport call is outstanding, the items
\* are handled in their order and the paired indices of the output sequence
\* are non-decreasing; every step only appends to the output sequence, and
\* appends output items of an item only while no transport call of a later
\* item has been issued.
C13_Sequential ==
    /\ []SequentialState
    /\ [][ /\ AppendOnly
           /\ \A k \in 1..Len(Appended) : \A m \in 1..Len(log) :
                 log[m].ev = "invoke" => log[m].item <= Appended[k].pairedItem.item ]_vars

\* C13 witness: a run over two items that called the transport for both,
\* the outputs of item 0 before those of item 1
C13_Witness ==
    /\ pc = "returned"
    /\ itemCount = 2
    /\ \E a, b \in 1..Len(log) :
          /\ a < b
          /\ log[a] = Event("normalize", 0, << >>)
          /\ log[b] = Event("invoke", 1, << >>)
    /\ Len(returnData) >= 3
    /\ returnData[1].pairedItem.item = 0
    /\ returnData[Len(returnData)].pairedItem.item = 1
    /\ Outstanding(log) = {}

\* the output item is one the catch block pushes
IsErrorItem(o) ==
    /\ o.pairedItem.form = "number"
    /\ o.json.kind = "object"
    /\ DOMAIN o.json.fields = { "error" }

\* an error was raised while processing item j
Failed(j) == \E k \in 1..Len(log) : IsErrorEvent(log[k]) /\ log[k].item = j

\* C14: the output items paired with an input item are either normal ones
\* only, or one error item and nothing else: an item for which an error was
\* raised was never normalized and has no normal output, an item that was
\* normalized has no error item.
C14_AllOrNothing ==
    \A j \in 0..(itemCount - 1) :
        IF Failed(j)
        THEN /\ \A k \in 1..Len(OutputsOf(j)) : IsErrorItem(OutputsOf(j)[k])
             /\ Len(OutputsOf(j)) = IF continueOnFail THEN 1 ELSE 0
             /\ ~ \E k \in 1..Len(log) : log[k] = Event("normalize", j, << >>)
        ELSE \A k \in 1..Len(OutputsOf(j)) : ~IsErrorItem(OutputsOf(j)[k])

\* C14 witness: item 0 fanned out into two normal outputs, item 1 failed in
\* the transport and left one error item
C14_Witness ==
    /\ continueOnFail
    /\ pipeline = "DM"
    /\ Len(OutputsOf(0)) = 2
    /\ ~Failed(0)
    /\ \E k \in 1..Len(log) : log[k].ev = "TransportError" /\ log[k].item = 1
    /\ Len(OutputsOf(1)) = 1
    /\ IsErrorItem(OutputsOf(1)[1])

====
